---- MODULE Spec2Model ----
(***************************************************************************)
(* Translation service: the request pipeline of app.py, the Redis-backed   *)
(* TranslationCache, the MarianTranslator model registry and the text      *)
(* pre/post-processing helpers, as one state machine.                      *)
(*                                                                         *)
(* Strings are sequences of one-character strings.  Python's None is the   *)
(* record NoneVal; a present value v is Some(v).                           *)
(***************************************************************************)
EXTENDS Integers, Sequences, FiniteSets, TLC

\* ------------------------------------------------------------------ bounds
NumThreads == 2      \* request-serving threads of the process
MaxOps     == 2      \* operations started over one run of concurrent threads
MaxSeqOps  == 3      \* operations started over one run of calls made one at a time
MaxTicks   == 2      \* how far the clock advances, in half-TTL ticks
MaxBriefLen == 1     \* longest text of a request under the fair specification
MaxTextLen  == 5     \* longest text given to a text helper called on its own
MaxChunkLen == 4     \* largest max_length given to chunk_text

\* ------------------------------------------------------- program constants
MAX_LENGTH == 512
CACHE_TTL  == 86400

Threads == 1..NumThreads

NoneVal == [some |-> FALSE, val |-> <<>>]
Some(v) == [some |-> TRUE, val |-> v]

\* Python truthiness of an Optional[str]: None and "" are both falsy.
Truthy(v) == v.some /\ v.val # <<>>

\* ------------------------------------------------------------------- text
IsSpace(c)  == c \in {" ", "\t"}
IsTerm(c)   == c \in {"!", "?", "."}
IsPunct(c)  == c \in {",", ".", "!", "?", ";", ":"}
IsLetter(c) == c \in {"a", "b", "A", "B"}
Upper(c)    == IF c = "a" THEN "A" ELSE IF c = "b" THEN "B" ELSE c

\* text.strip()
RECURSIVE LStrip(_)
LStrip(s) == IF s # <<>> /\ IsSpace(Head(s)) THEN LStrip(Tail(s)) ELSE s
RECURSIVE RStrip(_)
RStrip(s) ==
    IF s # <<>> /\ IsSpace(s[Len(s)]) THEN RStrip(SubSeq(s, 1, Len(s) - 1)) ELSE s
Strip(s) == RStrip(LStrip(s))

\* ' '.join(text.split()): whitespace runs become one space, none at the ends.
RECURSIVE SplitJoinFrom(_, _, _)
SplitJoinFrom(s, i, acc) ==
    IF i > Len(s) THEN RStrip(acc)
    ELSE IF IsSpace(s[i])
         THEN SplitJoinFrom(s, i + 1,
                 IF acc = <<>> \/ acc[Len(acc)] = " " THEN acc ELSE Append(acc, " "))
         ELSE SplitJoinFrom(s, i + 1, Append(acc, s[i]))
SplitJoin(s) == SplitJoinFrom(s, 1, <<>>)

\* re.sub(r'([!?.]){2,}', r'\1', text): a maximal run of two or more
\* characters of !?. is replaced by the last character of the run.
RECURSIVE CollapseTermFrom(_, _, _)
CollapseTermFrom(s, i, acc) ==
    IF i > Len(s) THEN acc
    ELSE IF IsTerm(s[i]) /\ i < Len(s) /\ IsTerm(s[i + 1])
         THEN CollapseTermFrom(s, i + 1, acc)
         ELSE CollapseTermFrom(s, i + 1, Append(acc, s[i]))
\* (variant: the pattern is ([!?.]){2}, pairs instead of whole runs)
RECURSIVE CollapseTermPairs(_)
CollapseTermPairs(s) ==
    IF s = <<>> THEN s
    ELSE IF IsTerm(s[1]) /\ Len(s) > 1 /\ IsTerm(s[2])
         THEN <<s[2]>> \o CollapseTermPairs(SubSeq(s, 3, Len(s)))
         ELSE <<s[1]>> \o CollapseTermPairs(Tail(s))

CollapseTerm(s) == CollapseTermFrom(s, 1, <<>>)

preprocess_text(text) ==
    IF text = <<>> THEN text ELSE Strip(CollapseTerm(SplitJoin(text)))

\* re.sub(r'\s+([,.!?;:])', r'\1', text): a whitespace run directly before a
\* punctuation character is removed.
RECURSIVE SpaceRunEnd(_, _)
SpaceRunEnd(s, i) ==
    IF i <= Len(s) /\ IsSpace(s[i]) THEN SpaceRunEnd(s, i + 1) ELSE i
RECURSIVE DropSpaceBeforePunctFrom(_, _, _)
DropSpaceBeforePunctFrom(s, i, acc) ==
    IF i > Len(s) THEN acc
    ELSE IF IsSpace(s[i])
         THEN LET j == SpaceRunEnd(s, i) IN
              IF j <= Len(s) /\ IsPunct(s[j])
              THEN DropSpaceBeforePunctFrom(s, j + 1, Append(acc, s[j]))
              ELSE DropSpaceBeforePunctFrom(s, j, acc \o SubSeq(s, i, j - 1))
         ELSE DropSpaceBeforePunctFrom(s, i + 1, Append(acc, s[i]))
DropSpaceBeforePunct(s) == DropSpaceBeforePunctFrom(s, 1, <<>>)

\* re.sub(r'([,.!?;:])([A-Za-z])', r'\1 \2', text)
RECURSIVE SpaceAfterPunctFrom(_, _, _)
SpaceAfterPunctFrom(s, i, acc) ==
    IF i > Len(s) THEN acc
    ELSE IF IsPunct(s[i]) /\ i < Len(s) /\ IsLetter(s[i + 1])
         THEN SpaceAfterPunctFrom(s, i + 2, acc \o <<s[i], " ", s[i + 1]>>)
         ELSE SpaceAfterPunctFrom(s, i + 1, Append(acc, s[i]))
SpaceAfterPunct(s) == SpaceAfterPunctFrom(s, 1, <<>>)

Capitalize(s) == IF s = <<>> THEN s ELSE <<Upper(s[1])>> \o Tail(s)

postprocess_text(text) ==
    IF text = <<>> THEN text
    ELSE Strip(Capitalize(SpaceAfterPunct(DropSpaceBeforePunct(text))))

\* re.split(r'([.!?]+\s+)', text): the pieces between the delimiters and
\* the delimiters themselves, alternating.  A delimiter is a maximal run of
\* !?. together with the whitespace run that follows it.
RECURSIVE TermRunEnd(_, _)
TermRunEnd(s, i) ==
    IF i <= Len(s) /\ IsTerm(s[i]) THEN TermRunEnd(s, i + 1) ELSE i
RECURSIVE SplitSentencesFrom(_, _, _, _)
SplitSentencesFrom(s, start, i, acc) ==
    IF i > Len(s) THEN Append(acc, SubSeq(s, start, Len(s)))
    ELSE IF IsTerm(s[i])
         THEN LET j == TermRunEnd(s, i) IN
              IF j <= Len(s) /\ IsSpace(s[j])
              THEN LET k == SpaceRunEnd(s, j) IN
                   SplitSentencesFrom(s, k, k,
                       acc \o <<SubSeq(s, start, i - 1), SubSeq(s, i, k - 1)>>)
              ELSE SplitSentencesFrom(s, start, j, acc)
         ELSE SplitSentencesFrom(s, start, i + 1, acc)
SplitSentences(s) == SplitSentencesFrom(s, 1, 1, <<>>)

\* sentence + punctuation of the loop of chunk_text, lines 104-107.
FullSentence(sentences, i) ==
    sentences[i] \o (IF i + 1 <= Len(sentences) THEN sentences[i + 1] ELSE <<>>)

\* `if len(current_chunk) + len(full_sentence) <= max_length` at line 109.
\* (variant: every sentence is added to the current chunk)
FitsAlways(current_chunk, full_sentence, max_length) == TRUE

Fits(current_chunk, full_sentence, max_length) ==
    Len(current_chunk) + Len(full_sentence) <= max_length

\* chunks.append(current_chunk.strip()) under `if current_chunk:`.
Flush(chunks, current_chunk) ==
    IF current_chunk # <<>> THEN Append(chunks, Strip(current_chunk)) ELSE chunks

RECURSIVE ChunkFrom(_, _, _, _, _)
ChunkFrom(sentences, i, current_chunk, chunks, max_length) ==
    IF i > Len(sentences) THEN Flush(chunks, current_chunk)
    ELSE LET full_sentence == FullSentence(sentences, i) IN
         IF Fits(current_chunk, full_sentence, max_length)
         THEN ChunkFrom(sentences, i + 2, current_chunk \o full_sentence, chunks,
                        max_length)
         ELSE ChunkFrom(sentences, i + 2, full_sentence,
                        Flush(chunks, current_chunk), max_length)

chunk_text(text, max_length) ==
    IF Len(text) <= max_length THEN <<text>>
    ELSE ChunkFrom(SplitSentences(text), 1, <<>>, <<>>, max_length)

\* ------------------------------------------------------------- inputs
Str_a     == <<"a">>
Str_blank == <<" ">>
Str_msg   == <<"a", "!", "!", " ", " ", "a">>
Long(n)   == [i \in 1..n |-> "a"]

\* Request bodies a client sends.  A missing JSON field is None; a language
\* code that is missing or empty is "" (both are falsy at app.py:87).
ValidTexts == {Str_msg, Str_blank}
RequestInputs ==
    {[data |-> FALSE, text |-> NoneVal, src |-> "", tgt |-> ""],
     [data |-> TRUE, text |-> NoneVal, src |-> "en", tgt |-> "hi"],
     [data |-> TRUE, text |-> Some(<<>>), src |-> "en", tgt |-> "hi"],
     [data |-> TRUE, text |-> Some(Str_msg), src |-> "en", tgt |-> ""],
     [data |-> TRUE, text |-> Some(Long(MAX_LENGTH + 1)), src |-> "en", tgt |-> "hi"],
     [data |-> TRUE, text |-> Some(Str_msg), src |-> "en", tgt |-> "fr"]}
    \cup {[data |-> TRUE, text |-> Some(x), src |-> p[1], tgt |-> p[2]] :
             x \in ValidTexts, p \in {<<"en", "hi">>, <<"hi", "en">>}}

\* Language pairs passed to _load_model and unload_model directly.
ArgPairs == {<<"en", "hi">>, <<"hi", "en">>, <<"en", "fr">>}

\* What the engine (tokenizer, generate, decode) can return for an input.
EngineOutputs == {<<>>, <<"a", " ", "!", "a">>}

\* ------------------------------------------------------------ app.py
\* (variant: the allow-list names a pair the registry has no model for)
SUPPORTED_PAIRS_WithFrench == {<<"en", "hi">>, <<"hi", "en">>, <<"en", "fr">>}

SUPPORTED_PAIRS == {<<"en", "hi">>, <<"hi", "en">>}

Missing(text, source_lang, target_lang) ==
    ~Truthy(text) \/ source_lang = "" \/ target_lang = ""

TooLong(text) == Len(text.val) > MAX_LENGTH

\* (variant: the allow-list check accepts every pair)
SupportedPairAny(source_lang, target_lang) == TRUE

SupportedPair(source_lang, target_lang) ==
    <<source_lang, target_lang>> \in SUPPORTED_PAIRS

\* The validation of a request body: "" when it passes, else the error.
Validate(r) ==
    IF ~r.data THEN "Invalid JSON"
    ELSE IF Missing(r.text, r.src, r.tgt) THEN "Missing required fields"
    ELSE IF TooLong(r.text) THEN "Text too long"
    ELSE IF ~SupportedPair(r.src, r.tgt) THEN "Unsupported language pair"
    ELSE ""

\* `if cached_translation:` at app.py:107
\* (variant: the pipeline ignores what the lookup returned)
CacheHitIgnored(cached_translation) == FALSE

CacheHit(cached_translation) == Truthy(cached_translation)

\* The value handed to cache.set at app.py:135.
\* (variant: the engine output is cached before postprocessing)
CachedValueRaw(translated_text, final_text) == translated_text

CachedValue(translated_text, final_text) == final_text

\* ---------------------------------------------------- translation_cache.py
\* hashlib.md5(text.encode('utf-8')).hexdigest()[:16] of the model's texts.
Hash16(text) ==
    CASE text = Str_a     -> "0cc175b9c0f1b6a8"
      [] text = <<>>      -> "d41d8cd98f00b204"
      [] text = <<"a", "!", " ", "a">> -> "a5279cbb775fe2a3"
      [] text = Str_blank -> "7215ee9c7d9dc229"
      [] text = Str_msg   -> "7fa2e3533f115353"
      [] text = Long(MAX_LENGTH)     -> "56907396339ca2b0"
      [] text = Long(MAX_LENGTH + 1) -> "6649c3e827e44f7b"

_generate_key(text, source_lang, target_lang) ==
    "trans:" \o source_lang \o ":" \o target_lang \o ":" \o Hash16(text)

\* When a value written at time t by setex(key, self.ttl, value) expires
\* (line 99, with the ttl of line 18).
\* A key with no expiry outlives the clock of a run.
NoExpiry == (MaxTicks + 1) * CACHE_TTL

\* (variant: the value is written with no expiry)
ExpiresNever(t) == t + NoExpiry

ExpiresAt(t) == t + CACHE_TTL

\* The text cache.set is keyed on (app.py:135): the request's text, as for
\* cache.get at app.py:105.
\* (variant: the write is keyed on the preprocessed text)
SetKeyTextPreprocessed(text, processed_text) == processed_text

SetKeyText(text, processed_text) == text

\* scan(cursor, match='trans:*', count=100) at line 116: the keys a page
\* returns are those of the cache's prefix.
\* (variant: the scan matches every key)
ScanMatchAll(k) == TRUE

ScanMatch(k) == Len(k) >= 6 /\ SubSeq(k, 1, 6) = "trans:"

\* Keys that other users of the same Redis database hold.
ForeignKeys == {"session:1", "transit:9"}
ForeignStore == [k \in ForeignKeys |-> [val |-> <<"a">>, exp |-> NoExpiry]]

\* self.redis_client after a failed connection attempt (line 40).
\* (variant: the except branch leaves the client object in place)
ClientKeptAfterConnectFailure == "Redis"

ClientAfterConnectFailure == "None"

\* What an exception inside get's try block turns into (lines 77-79):
\* "None" is `return None`, "raise" would let it propagate.
\* (variant: get lets a backend exception propagate)
GetOnErrorRaise == "raise"

GetOnError == "None"

\* `if cached_value:` at line 70.
GetFound(cached_value) == Truthy(cached_value)

\* ---------------------------------------------------- marian_translator.py
common_pairs == <<(<<"en", "hi">>), (<<"hi", "en">>)>>

model_map == [p \in {<<"en", "hi">>, <<"hi", "en">>} |->
                 IF p = <<"en", "hi">> THEN "Helsinki-NLP/opus-mt-en-hi"
                                       ELSE "Helsinki-NLP/opus-mt-hi-en"]

_get_model_name(source_lang, target_lang) ==
    IF <<source_lang, target_lang>> \in DOMAIN model_map
    THEN model_map[<<source_lang, target_lang>>] ELSE ""

\* Where _preload_models goes on after the load of common_pairs[i] raised:
\* the try of lines 35-39 is inside the loop, so with the next pair.
\* (variant: the try encloses the loop, a failure ends the preloading)
PreloadAbortsOnFailure(i) == Len(common_pairs) + 1

AfterPreloadFailure(i) == i + 1

\* `if pair in self.models: return` at line 56.
\* (variant: _load_model without its early return)
AlreadyLoadedIgnored(pair, table) == FALSE

AlreadyLoaded(pair, table) == pair \in table

\* The tokenizer table after from_pretrained raised (lines 66-81, 88-90):
\* both objects are registered only after both have been built.
\* (variant: the tokenizer is registered as soon as it has been built)
TokenizerRegisteredEarly(table, pair) == table \cup {pair}

TokenizersAfterFailedLoad(table, pair) == table

\* get_loaded_models, lines 141-143
get_loaded_models(table) == {p[1] \o "->" \o p[2] : p \in table}

\* `if pair not in self.models` at line 107.
NeedsLoad(pair, table) == pair \notin table

\* The tokenizer table after unload_model's two del statements (154-155).
\* (variant: unload_model forgets the tokenizer entry)
TokenizersKept(table, pair) == table

TokenizersAfterUnload(table, pair) == table \ {pair}

\* Whether a failing engine call re-raises (lines 137-139).
\* (variant: the except branch returns instead of re-raising)
EngineErrorSwallowed == FALSE

EngineErrorRaises == TRUE

\* ------------------------------------------------------------------ state
VARIABLES
    boot,            \* construction progress: index into common_pairs, then connect, then serving
    models,          \* self.models: the pairs that have a model entry
    tokenizers,      \* self.tokenizers: the pairs that have a tokenizer entry
    redis_client,    \* self.redis_client: "None" or "Redis"
    connectFailed,   \* whether the connection attempt of _connect raised
    store,           \* the backend's keys: key -> [val, exp]
    now,             \* the backend's clock, in seconds
    engineMemo,      \* what the engine returned for each input it has seen
    th,              \* each thread's operation, position and locals
    stat,            \* per pair: loads that registered it, unloads that removed it;
                     \* the pairs whose preload raised
    backendTouched,  \* whether a cache operation has issued a backend command
    ops,             \* operations started so far
    lastSet,         \* per key: the time of the most recent successful setex
    fn               \* a text helper called on its own: arguments and result

vars == <<boot, models, tokenizers, redis_client, connectFailed, store, now,
          engineMemo, th, stat, backendTouched, ops, lastSet, fn>>

ConnectStage == Len(common_pairs) + 1
Serving      == boot = Len(common_pairs) + 2
TickSeconds  == CACHE_TTL \div 2

Idle ==
    [op |-> "none", pc |-> "idle", data |-> FALSE, text |-> NoneVal,
     src |-> "", tgt |-> "", pre |-> <<>>, raw |-> NoneVal, final |-> <<>>,
     got |-> NoneVal, prior |-> NoneVal, setRes |-> "none", status |-> 0,
     cached |-> FALSE, translated |-> NoneVal, model |-> "", err |-> "",
     engineCalled |-> FALSE, loadRan |-> FALSE, cacheFailed |-> FALSE,
     snapM |-> {}, snapT |-> {}, scan |-> {}, connected |-> "none",
     trail |-> <<>>, getKey |-> "", setKey |-> "", fresh |-> "none"]

PairOf(r) == <<r.src, r.tgt>>
Free(t)   == th[t].pc \in {"idle", "done"}

ZeroStat == [p \in DOMAIN model_map |-> 0]

\* No text helper is being called on its own.
FnIdle == [pc |-> "none", text |-> <<>>, max_length |-> 0, once |-> <<>>,
           twice |-> <<>>, chunks |-> <<>>]

InitProcess ==
    /\ boot = 1
    /\ models = {}
    /\ tokenizers = {}
    /\ redis_client = "None"
    /\ connectFailed = FALSE
    /\ store = <<>>
    /\ now = 0
    /\ engineMemo = <<>>
    /\ th = [t \in Threads |-> Idle]
    /\ stat = [registered |-> ZeroStat, removed |-> ZeroStat, preloadFailed |-> {}]
    /\ backendTouched = FALSE
    /\ ops = 0
    /\ lastSet = <<>>

Init == InitProcess /\ fn = FnIdle

Bump(field, pair) ==
    stat' = [stat EXCEPT ![field] = [@ EXCEPT ![pair] = @ + 1]]

\* A translate request enters a state of the pipeline (app.py 74-156); the
\* thread's `trail` lists the states it has entered, in order.
Enter(r, state) ==
    IF r.op = "translate" THEN [r EXCEPT !.trail = Append(@, state)] ELSE r

\* An operation ends by raising: a translate request answers 500.
Raised(r, kind) ==
    Enter([r EXCEPT !.pc = "done", !.status = 500, !.err = kind], "Failed")
\* An operation ends by returning.
Returned(r) == [r EXCEPT !.pc = "done", !.status = 200]

\* ---------------------------------------------------------- construction
\* MarianTranslator.__init__ -> _preload_models: one pair of common_pairs,
\* loaded by _load_model with no other thread running; a failure is caught.
Preload ==
    /\ boot <= Len(common_pairs)
    /\ LET pair == common_pairs[boot] IN
       \E ok \in BOOLEAN :
          IF AlreadyLoaded(pair, models)
          THEN /\ UNCHANGED <<models, tokenizers, stat>>
               /\ boot' = boot + 1
          ELSE IF ok
          THEN /\ tokenizers' = tokenizers \cup {pair}
               /\ models' = models \cup {pair}
               /\ Bump("registered", pair)
               /\ boot' = boot + 1
          ELSE /\ UNCHANGED models
               /\ tokenizers' = TokenizersAfterFailedLoad(tokenizers, pair)
               /\ stat' = [stat EXCEPT !.preloadFailed = @ \cup {pair}]
               /\ boot' = AfterPreloadFailure(boot)
    /\ UNCHANGED <<fn, lastSet, redis_client, connectFailed, store, now,
                   engineMemo, th, backendTouched, ops>>

\* TranslationCache.__init__ -> _connect
Connect ==
    /\ boot = ConnectStage
    /\ \E ok \in BOOLEAN :
          /\ connectFailed' = ~ok
          /\ redis_client' = IF ok THEN "Redis" ELSE ClientAfterConnectFailure
    /\ boot' = boot + 1
    /\ UNCHANGED <<fn, lastSet, models, tokenizers, store, now, engineMemo, th,
                   stat, backendTouched, ops>>

\* Time passes at the backend; keys whose TTL has elapsed are gone.
Tick ==
    /\ Serving
    /\ now + TickSeconds <= MaxTicks * TickSeconds
    /\ now' = now + TickSeconds
    /\ store' = [k \in {x \in DOMAIN store : store[x].exp > now'} |-> store[k]]
    /\ UNCHANGED <<fn, lastSet, boot, models, tokenizers, redis_client, connectFailed,
                   engineMemo, th, stat, backendTouched, ops>>

\* ------------------------------------------------- starting an operation
\* `solo` restricts the run to calls made one after the other by the first
\* thread.  Threads are interchangeable: a thread takes its first operation
\* after the ones below it.
CanStart(t, solo) ==
    /\ Serving
    /\ ops < (IF solo THEN MaxSeqOps ELSE MaxOps)
    /\ Free(t)
    /\ \A u \in Threads : u < t => th[u].op # "none"
    /\ solo => t = 1

Begin(t, r) ==
    /\ th' = [th EXCEPT ![t] = r]
    /\ ops' = ops + 1

\* app.translate, lines 74-102: read the body and validate it.
StartTranslateOf(t, solo, inputs) ==
    /\ CanStart(t, solo)
    /\ \E q \in inputs :
          LET r == Enter([Idle EXCEPT !.op = "translate", !.data = q.data,
                                      !.text = q.text, !.src = q.src,
                                      !.tgt = q.tgt], "Validating")
              e == Validate(q)
          IN Begin(t, IF e = ""
                      THEN Enter([r EXCEPT !.pc = "cache_get"], "CacheLookup")
                      ELSE Enter([r EXCEPT !.pc = "done", !.status = 400,
                                           !.err = e], "Failed"))
    /\ UNCHANGED <<fn, lastSet, boot, models, tokenizers, redis_client, connectFailed, store,
                   now, engineMemo, stat, backendTouched>>

StartTranslate(t, solo) == StartTranslateOf(t, solo, RequestInputs)

\* A direct call of MarianTranslator._load_model(source_lang, target_lang).
StartLoad(t, solo) ==
    /\ CanStart(t, solo)
    /\ \E p \in ArgPairs :
          Begin(t, [Idle EXCEPT !.op = "load", !.pc = "l_check", !.src = p[1],
                                !.tgt = p[2], !.snapM = models, !.snapT = tokenizers])
    /\ UNCHANGED <<fn, lastSet, boot, models, tokenizers, redis_client, connectFailed, store,
                   now, engineMemo, stat, backendTouched>>

\* A call of MarianTranslator.unload_model(source_lang, target_lang).
StartUnload(t, solo) ==
    /\ CanStart(t, solo)
    /\ \E p \in ArgPairs :
          Begin(t, [Idle EXCEPT !.op = "unload", !.pc = "u_check", !.src = p[1],
                                !.tgt = p[2], !.snapM = models, !.snapT = tokenizers])
    /\ UNCHANGED <<fn, lastSet, boot, models, tokenizers, redis_client, connectFailed, store,
                   now, engineMemo, stat, backendTouched>>

\* A call of TranslationCache.clear(), lines 109-114.
StartClear(t, solo) ==
    /\ CanStart(t, solo)
    /\ Begin(t, IF redis_client = "None" THEN Returned([Idle EXCEPT !.op = "clear"])
                ELSE [Idle EXCEPT !.op = "clear", !.pc = "c_scan",
                                  !.scan = DOMAIN store])
    /\ UNCHANGED <<fn, lastSet, boot, models, tokenizers, redis_client, connectFailed, store,
                   now, engineMemo, stat, backendTouched>>

\* TranslationCache.is_connected() (as /health calls it) or get_stats().
StartProbe(t, solo) ==
    /\ CanStart(t, solo)
    /\ \E which \in {"is_connected", "get_stats"} :
          IF redis_client = "None"
          THEN /\ Begin(t, Returned([Idle EXCEPT !.op = which, !.connected = "False"]))
               /\ UNCHANGED backendTouched
          ELSE \E ok \in BOOLEAN :
                  /\ Begin(t, Returned([Idle EXCEPT !.op = which,
                                  !.connected = IF ok THEN "True" ELSE "False"]))
                  /\ backendTouched' = TRUE
    /\ UNCHANGED <<fn, lastSet, boot, models, tokenizers, redis_client, connectFailed, store,
                   now, engineMemo, stat>>

\* ------------------------------------------------------------ cache.get
\* app.py 104-126 with TranslationCache.get: the lookup, the hit response,
\* or on a miss the preprocessing of the text.
AfterGet(r, res, failed, seen) ==
    LET g == [r EXCEPT !.got = res, !.cacheFailed = failed, !.prior = seen] IN
    IF CacheHit(res)
    THEN Enter([g EXCEPT !.pc = "done", !.status = 200, !.cached = TRUE,
                         !.translated = res], "CacheHit")
    ELSE Enter([g EXCEPT !.pc = "t_check", !.pre = preprocess_text(r.text.val)],
               "Translating")

\* Whether less than the TTL has elapsed since the most recent set of the key.
SinceSet(key) ==
    IF key \notin DOMAIN lastSet THEN "never"
    ELSE IF now - lastSet[key] < CACHE_TTL THEN "within" ELSE "elapsed"

CacheGet(t) ==
    /\ th[t].pc = "cache_get"
    /\ LET key == _generate_key(th[t].text.val, th[t].src, th[t].tgt)
           r   == IF redis_client = "None" THEN th[t]
                  ELSE [th[t] EXCEPT !.getKey = key]
       IN IF redis_client = "None"
          THEN /\ th' = [th EXCEPT ![t] = AfterGet(r, NoneVal, FALSE, NoneVal)]
               /\ UNCHANGED backendTouched
          ELSE \E ok \in BOOLEAN :
                  /\ backendTouched' = TRUE
                  /\ IF ok
                     THEN LET cached_value == IF key \in DOMAIN store
                                              THEN Some(store[key].val) ELSE NoneVal
                          IN th' = [th EXCEPT ![t] =
                                 AfterGet([r EXCEPT !.fresh = SinceSet(key)],
                                          IF GetFound(cached_value)
                                             THEN cached_value ELSE NoneVal,
                                          FALSE, cached_value)]
                     ELSE th' = [th EXCEPT ![t] =
                                 IF GetOnError = "None"
                                 THEN AfterGet(r, NoneVal, TRUE, NoneVal)
                                 ELSE Raised([r EXCEPT !.cacheFailed = TRUE], "cache")]
    /\ UNCHANGED <<fn, lastSet, boot, models, tokenizers, redis_client, connectFailed, store,
                   now, engineMemo, stat, ops>>

\* --------------------------------------------- MarianTranslator.translate
\* lines 104-108: `if pair not in self.models`
TranslateCheck(t) ==
    /\ th[t].pc = "t_check"
    /\ th' = [th EXCEPT ![t] =
                 [@ EXCEPT !.engineCalled = TRUE, !.snapM = models, !.snapT = tokenizers,
                           !.pc = IF NeedsLoad(PairOf(th[t]), models)
                                  THEN "l_check" ELSE "t_tok"]]
    /\ UNCHANGED <<fn, lastSet, boot, models, tokenizers, redis_client, connectFailed, store,
                   now, engineMemo, stat, backendTouched, ops>>

\* Where _load_model returns to.
AfterLoad(r) ==
    IF r.op = "translate" THEN [r EXCEPT !.pc = "t_tok"] ELSE Returned(r)

\* _load_model lines 54-62: already loaded, or no model identifier.
LoadCheck(t) ==
    /\ th[t].pc = "l_check"
    /\ th' = [th EXCEPT ![t] =
                 IF AlreadyLoaded(PairOf(@), models) THEN AfterLoad(@)
                 ELSE IF _get_model_name(@.src, @.tgt) = ""
                      THEN Raised(@, "ValueError")
                      ELSE [@ EXCEPT !.pc = "l_pretrained"]]
    /\ UNCHANGED <<fn, lastSet, boot, models, tokenizers, redis_client, connectFailed, store,
                   now, engineMemo, stat, backendTouched, ops>>

\* _load_model lines 66-81 and 88-90: from_pretrained of the tokenizer and of
\* the model; either may raise, and the exception is re-raised.
LoadPretrained(t) ==
    /\ th[t].pc = "l_pretrained"
    /\ \E ok \in BOOLEAN :
          IF ok
          THEN /\ th' = [th EXCEPT ![t] =
                            [@ EXCEPT !.pc = "l_tokenizer", !.loadRan = TRUE]]
               /\ UNCHANGED tokenizers
          ELSE /\ th' = [th EXCEPT ![t] =
                            Raised([@ EXCEPT !.loadRan = TRUE], "load")]
               /\ tokenizers' = TokenizersAfterFailedLoad(tokenizers, PairOf(th[t]))
    /\ UNCHANGED <<fn, lastSet, boot, models, redis_client, connectFailed, store,
                   now, engineMemo, stat, backendTouched, ops>>

\* _load_model line 83: self.tokenizers[pair] = tokenizer
LoadTokenizer(t) ==
    /\ th[t].pc = "l_tokenizer"
    /\ tokenizers' = tokenizers \cup {PairOf(th[t])}
    /\ th' = [th EXCEPT ![t].pc = "l_model"]
    /\ UNCHANGED <<fn, lastSet, boot, models, redis_client, connectFailed, store, now,
                   engineMemo, stat, backendTouched, ops>>

\* _load_model line 84: self.models[pair] = model
LoadModel(t) ==
    /\ th[t].pc = "l_model"
    /\ models' = models \cup {PairOf(th[t])}
    /\ Bump("registered", PairOf(th[t]))
    /\ th' = [th EXCEPT ![t] = AfterLoad(@)]
    /\ UNCHANGED <<fn, lastSet, boot, tokenizers, redis_client, connectFailed, store, now,
                   engineMemo, backendTouched, ops>>

\* translate line 110: tokenizer = self.tokenizers[pair]
TranslateTokenizer(t) ==
    /\ th[t].pc = "t_tok"
    /\ th' = [th EXCEPT ![t] =
                 IF PairOf(@) \in tokenizers THEN [@ EXCEPT !.pc = "t_model"]
                 ELSE Raised(@, "KeyError")]
    /\ UNCHANGED <<fn, lastSet, boot, models, tokenizers, redis_client, connectFailed, store,
                   now, engineMemo, stat, backendTouched, ops>>

\* translate line 111: model = self.models[pair]
TranslateModel(t) ==
    /\ th[t].pc = "t_model"
    /\ th' = [th EXCEPT ![t] =
                 IF PairOf(@) \in models THEN [@ EXCEPT !.pc = "t_generate"]
                 ELSE Raised(@, "KeyError")]
    /\ UNCHANGED <<fn, lastSet, boot, models, tokenizers, redis_client, connectFailed, store,
                   now, engineMemo, stat, backendTouched, ops>>

\* translate lines 113-139 and app.py 131-132: the engine call, which raises
\* or returns its output for this input, and the postprocessing of the output.
Translated(r, out) ==
    Enter([r EXCEPT !.raw = Some(out), !.final = postprocess_text(out),
                    !.pc = "cache_set"], "Caching")

TranslateGenerate(t) ==
    /\ th[t].pc = "t_generate"
    /\ LET r == th[t]
           k == <<r.src, r.tgt, r.pre>>
       IN \E ok \in BOOLEAN :
             IF ok
             THEN \E out \in (IF k \in DOMAIN engineMemo THEN {engineMemo[k]}
                              ELSE EngineOutputs) :
                     /\ engineMemo' = (k :> out) @@ engineMemo
                     /\ th' = [th EXCEPT ![t] = Translated(r, out)]
             ELSE /\ th' = [th EXCEPT ![t] =
                               IF EngineErrorRaises THEN Raised(r, "engine")
                               ELSE Translated([r EXCEPT !.err = "engine"], <<>>)]
                  /\ UNCHANGED engineMemo
    /\ UNCHANGED <<fn, lastSet, boot, models, tokenizers, redis_client, connectFailed, store,
                   now, stat, backendTouched, ops>>

\* ------------------------------------------------------------ cache.set
\* app.py 134-149 with TranslationCache.set: the write, then the response.
Responded(r, setRes, failed) ==
    Enter([r EXCEPT !.pc = "done", !.status = 200, !.cached = FALSE,
                    !.translated = Some(r.final), !.setRes = setRes,
                    !.cacheFailed = r.cacheFailed \/ failed,
                    !.model = _get_model_name(r.src, r.tgt)], "Done")

CacheSet(t) ==
    /\ th[t].pc = "cache_set"
    /\ LET key == _generate_key(SetKeyText(th[t].text.val, th[t].pre),
                                th[t].src, th[t].tgt)
           r   == IF redis_client = "None" THEN th[t]
                  ELSE [th[t] EXCEPT !.setKey = key]
       IN IF redis_client = "None"
          THEN /\ th' = [th EXCEPT ![t] = Responded(r, "False", FALSE)]
               /\ UNCHANGED <<store, lastSet, backendTouched>>
          ELSE \E ok \in BOOLEAN :
                  /\ backendTouched' = TRUE
                  /\ IF ok
                     THEN /\ store' = (key :> [val |-> CachedValue(r.raw.val, r.final),
                                               exp |-> ExpiresAt(now)]) @@ store
                          /\ lastSet' = (key :> now) @@ lastSet
                          /\ th' = [th EXCEPT ![t] = Responded(r, "True", FALSE)]
                     ELSE /\ th' = [th EXCEPT ![t] = Responded(r, "False", TRUE)]
                          /\ UNCHANGED <<store, lastSet>>
    /\ UNCHANGED <<fn, boot, models, tokenizers, redis_client, connectFailed, now,
                   engineMemo, stat, ops>>

\* ------------------------------------------ MarianTranslator.unload_model
\* line 153: `if pair in self.models`
UnloadCheck(t) ==
    /\ th[t].pc = "u_check"
    /\ th' = [th EXCEPT ![t] =
                 IF PairOf(@) \in models THEN [@ EXCEPT !.pc = "u_del_model"]
                 ELSE Returned(@)]
    /\ UNCHANGED <<fn, lastSet, boot, models, tokenizers, redis_client, connectFailed, store,
                   now, engineMemo, stat, backendTouched, ops>>

\* line 154: del self.models[pair]
UnloadDelModel(t) ==
    /\ th[t].pc = "u_del_model"
    /\ IF PairOf(th[t]) \in models
       THEN /\ models' = models \ {PairOf(th[t])}
            /\ Bump("removed", PairOf(th[t]))
            /\ th' = [th EXCEPT ![t].pc = "u_del_tokenizer"]
       ELSE /\ th' = [th EXCEPT ![t] = Raised(@, "KeyError")]
            /\ UNCHANGED <<models, stat>>
    /\ UNCHANGED <<fn, lastSet, boot, tokenizers, redis_client, connectFailed, store, now,
                   engineMemo, backendTouched, ops>>

\* line 155: del self.tokenizers[pair]
UnloadDelTokenizer(t) ==
    /\ th[t].pc = "u_del_tokenizer"
    /\ IF PairOf(th[t]) \in tokenizers
       THEN /\ tokenizers' = TokenizersAfterUnload(tokenizers, PairOf(th[t]))
            /\ th' = [th EXCEPT ![t] = Returned(@)]
       ELSE /\ th' = [th EXCEPT ![t] = Raised(@, "KeyError")]
            /\ UNCHANGED tokenizers
    /\ UNCHANGED <<fn, lastSet, boot, models, redis_client, connectFailed, store, now,
                   engineMemo, stat, backendTouched, ops>>

\* ------------------------------------------------- TranslationCache.clear
\* lines 115-125: one scan call and the delete of the page it returned.  The
\* thread's `scan` is the part of the keyspace the iteration has not yet
\* covered; a call covers some of it and returns the matching keys there, and
\* the backend answers cursor 0 with the last of it.  An exception ends the
\* loop.
ClearScan(t) ==
    /\ th[t].pc = "c_scan"
    /\ LET r == th[t] IN
       \E ok \in BOOLEAN :
          /\ backendTouched' = TRUE
          /\ IF ok
             THEN \E page \in (IF r.scan = {} THEN {{}} ELSE SUBSET r.scan \ {{}}) :
                     LET keys == {k \in page : ScanMatch(k)} IN
                     /\ store' = [k \in DOMAIN store \ keys |-> store[k]]
                     /\ th' = [th EXCEPT ![t] =
                                  IF r.scan \ page = {}
                                  THEN Returned([r EXCEPT !.scan = {}])
                                  ELSE [r EXCEPT !.scan = r.scan \ page]]
             ELSE /\ th' = [th EXCEPT ![t] =
                               Returned([r EXCEPT !.cacheFailed = TRUE, !.scan = {}])]
                  /\ UNCHANGED store
    /\ UNCHANGED <<fn, lastSet, boot, models, tokenizers, redis_client, connectFailed, now,
                   engineMemo, stat, ops>>

\* --------------------------------------------------------- specifications
Step(t) ==
    \/ CacheGet(t)
    \/ TranslateCheck(t)
    \/ LoadCheck(t)
    \/ LoadPretrained(t)
    \/ LoadTokenizer(t)
    \/ LoadModel(t)
    \/ TranslateTokenizer(t)
    \/ TranslateModel(t)
    \/ TranslateGenerate(t)
    \/ CacheSet(t)
    \/ UnloadCheck(t)
    \/ UnloadDelModel(t)
    \/ UnloadDelTokenizer(t)
    \/ ClearScan(t)

Start(t, solo) ==
    \/ StartTranslate(t, solo)
    \/ StartLoad(t, solo)
    \/ StartUnload(t, solo)
    \/ StartClear(t, solo)
    \/ StartProbe(t, solo)

\* Requests are served by concurrent threads.
Next ==
    \/ Preload
    \/ Connect
    \/ Tick
    \/ \E t \in Threads : Start(t, FALSE) \/ Step(t)

Spec == Init /\ [][Next]_vars

\* One operation at a time: each call returns before the next one starts.
NextSeq ==
    \/ Preload
    \/ Connect
    \/ Tick
    \/ \E t \in Threads : Start(t, TRUE) \/ Step(t)

SeqSpec == Init /\ [][NextSeq]_vars

\* Every call a handler makes returns or raises, and a worker thread that can
\* take its next step is eventually scheduled.  The requests of this
\* specification carry the texts of at most MaxBriefLen characters.
BriefInputs ==
    {q \in RequestInputs : q.text.some => Len(q.text.val) <= MaxBriefLen}

StartBrief(t, solo) ==
    \/ StartTranslateOf(t, solo, BriefInputs)
    \/ StartLoad(t, solo)
    \/ StartUnload(t, solo)
    \/ StartClear(t, solo)
    \/ StartProbe(t, solo)

NextLive ==
    \/ Preload
    \/ Connect
    \/ Tick
    \/ \E t \in Threads : StartBrief(t, FALSE) \/ Step(t)

LiveSpec == Init /\ [][NextLive]_vars /\ \A t \in Threads : WF_vars(Step(t))

\* Calls made one at a time, so none runs during another, against a Redis
\* database that other users hold keys in; each call runs to its return.
ClearInit ==
    /\ boot = 1
    /\ models = {}
    /\ tokenizers = {}
    /\ redis_client = "None"
    /\ connectFailed = FALSE
    /\ store = ForeignStore
    /\ now = 0
    /\ engineMemo = <<>>
    /\ th = [t \in Threads |-> Idle]
    /\ stat = [registered |-> ZeroStat, removed |-> ZeroStat, preloadFailed |-> {}]
    /\ backendTouched = FALSE
    /\ ops = 0
    /\ lastSet = <<>>
    /\ fn = FnIdle

NextClear ==
    \/ Preload
    \/ Connect
    \/ Tick
    \/ \E t \in Threads : StartBrief(t, TRUE) \/ Step(t)

ClearSpec == ClearInit /\ [][NextClear]_vars /\ WF_vars(Step(1))

\* The text helpers called on their own, on any text over TextAlphabet.
TextAlphabet == {"a", " ", "\t", ".", "!"}
Texts == UNION {[1..n -> TextAlphabet] : n \in 0..MaxTextLen}

TextInit ==
    /\ InitProcess
    /\ fn \in {[FnIdle EXCEPT !.pc = "input", !.text = x, !.max_length = m] :
                  x \in Texts, m \in 1..MaxChunkLen}

\* preprocess_text(text), and preprocess_text of what it returned.
ApplyPreprocess ==
    /\ fn.pc = "input"
    /\ fn' = [fn EXCEPT !.pc = "preprocessed", !.once = preprocess_text(fn.text),
                        !.twice = preprocess_text(preprocess_text(fn.text))]
    /\ UNCHANGED <<boot, models, tokenizers, redis_client, connectFailed, store,
                   now, engineMemo, th, stat, backendTouched, ops, lastSet>>

\* chunk_text(text, max_length)
ApplyChunk ==
    /\ fn.pc = "input"
    /\ fn' = [fn EXCEPT !.pc = "chunked",
                        !.chunks = chunk_text(fn.text, fn.max_length)]
    /\ UNCHANGED <<boot, models, tokenizers, redis_client, connectFailed, store,
                   now, engineMemo, th, stat, backendTouched, ops, lastSet>>

NextText == ApplyPreprocess \/ ApplyChunk

TextSpec == TextInit /\ [][NextText]_vars

\* ------------------------------------------------------------- properties
IsRequest(t)  == th[t].op = "translate"
Finished(t)   == th[t].pc = "done"
EngineErrors  == {"ValueError", "load", "KeyError", "engine"}
LoadingPcs    == {"l_pretrained", "l_tokenizer", "l_model"}
AfterLoadPcs  == {"t_tok", "t_model", "t_generate", "cache_set"}

\* The response the pipeline gives with no cache at all, once the engine has
\* answered for the request's preprocessed text.
EngineKey(r)      == <<r.src, r.tgt, preprocess_text(r.text.val)>>
UncachedResult(r) == Some(postprocess_text(engineMemo[EngineKey(r)]))

\* C1: a request whose lookup reaches the backend while the key of its triple
\* holds an unexpired value written by an earlier request is answered from the
\* cache: cached=true, the stored text, and no call of translator.translate.
C1_IdempotentCaching ==
    \A t \in Threads :
        (IsRequest(t) /\ th[t].prior.some) =>
            /\ Finished(t) /\ th[t].status = 200 /\ th[t].cached
            /\ th[t].translated = th[t].prior
            /\ ~th[t].engineCalled

\* The same, for stored values that are not the empty string.
IdempotentCachingNonEmpty ==
    \A t \in Threads :
        (IsRequest(t) /\ Truthy(th[t].prior)) =>
            /\ Finished(t) /\ th[t].status = 200 /\ th[t].cached
            /\ th[t].translated = th[t].prior
            /\ ~th[t].engineCalled

\* C2: no two threads are inside the load routine (from_pretrained and the
\* registration) for the same language pair.
C2_SingleFlight ==
    \A t, u \in Threads :
        (t # u /\ th[t].pc \in LoadingPcs /\ th[u].pc \in LoadingPcs)
            => PairOf(th[t]) # PairOf(th[u])

\* C3: a request that met a cache failure (client disabled at construction,
\* get raised, set raised) went on to the engine; it never ends with a cache
\* error, and when the engine answered it returns 200, cached=false and the
\* text the pipeline gives with no cache.
CacheTroubled(t) ==
    /\ IsRequest(t) /\ Finished(t) /\ th[t].status # 400
    /\ th[t].cacheFailed \/ connectFailed

C3_DegradeOnCacheFailure ==
    \A t \in Threads :
        CacheTroubled(t) =>
            /\ th[t].engineCalled
            /\ th[t].status = 500 => (th[t].err \in EngineErrors /\ ~th[t].raw.some)
            /\ th[t].status = 200 =>
                  /\ ~th[t].cached
                  /\ th[t].raw.some
                  /\ th[t].translated = UncachedResult(th[t])
            /\ th[t].status \in {200, 500}

C3_Witness ==
    \E t \in Threads :
        /\ CacheTroubled(t) /\ th[t].cacheFailed /\ th[t].setRes = "False"
        /\ th[t].status = 200 /\ Truthy(th[t].translated)

\* C4: a request whose model load or engine call failed ends with the 500
\* error response, returns no translation, and never called cache.set.
C4_FailureNotCached ==
    \A t \in Threads :
        (IsRequest(t) /\ th[t].err \in EngineErrors) =>
            /\ Finished(t) /\ th[t].status = 500
            /\ th[t].translated = NoneVal /\ ~th[t].cached
            /\ th[t].setRes = "none"

C4_Witness ==
    \E t, u \in Threads :
        /\ IsRequest(t) /\ th[t].err = "engine" /\ Finished(t)
        /\ IsRequest(u) /\ th[u].err = "load" /\ Finished(u)
        /\ redis_client = "Redis"

\* C5: a request with empty or missing text, text longer than MAX_LENGTH, or a
\* pair outside SUPPORTED_PAIRS is answered 400 at once: it made no cache
\* call, no load and no engine call, and is never at a step that could change
\* the cache or the model tables.
Invalid(r) ==
    \/ ~r.text.some
    \/ r.text.val = <<>>
    \/ Len(r.text.val) > MAX_LENGTH
    \/ <<r.src, r.tgt>> \notin SUPPORTED_PAIRS

C5_RejectedWithoutSideEffects ==
    \A t \in Threads :
        (IsRequest(t) /\ Invalid(th[t])) =>
            /\ th[t].err \in {"Invalid JSON", "Missing required fields",
                              "Text too long", "Unsupported language pair"}
            /\ th[t] = [Idle EXCEPT !.op = "translate", !.pc = "done", !.status = 400,
                                    !.err = th[t].err, !.data = th[t].data,
                                    !.text = th[t].text, !.src = th[t].src,
                                    !.tgt = th[t].tgt,
                                    !.trail = <<"Validating", "Failed">>]

C5_Witness ==
    \E t, u \in Threads :
        /\ IsRequest(t) /\ th[t].err = "Unsupported language pair"
        /\ IsRequest(u) /\ th[u].setRes = "True"
        /\ DOMAIN store # {} /\ models # {}

\* C6: every key of the cache is the key of a valid request triple and holds
\* postprocess_text of the engine's output for preprocess_text of that text;
\* a request that failed, was rejected or was served from the cache never
\* called cache.set.
ValidRequests == {q \in RequestInputs : Validate(q) = ""}

C6_CacheConsistency ==
    /\ \A k \in DOMAIN store :
          \E q \in ValidRequests :
             /\ k = _generate_key(q.text.val, q.src, q.tgt)
             /\ EngineKey(q) \in DOMAIN engineMemo
             /\ store[k].val = postprocess_text(engineMemo[EngineKey(q)])
    /\ \A t \in Threads :
          (IsRequest(t) /\ th[t].setRes # "none") =>
              /\ th[t].status = 200 /\ ~th[t].cached /\ th[t].raw.some
              /\ th[t].err = ""

C6_Witness ==
    \E q \in ValidRequests :
       LET k == _generate_key(q.text.val, q.src, q.tgt) IN
       /\ k \in DOMAIN store
       /\ store[k].val # engineMemo[EngineKey(q)]
       /\ \E t \in Threads : IsRequest(t) /\ th[t].err = "engine"

\* C7: once the connection attempt of the constructor has failed, the client
\* stays None, no operation issues a backend command or raises, the backend
\* holds nothing, every get gave None, every set gave False, clear returned
\* at once and is_connected / get_stats report not connected.
C7_DegradeToDisabled ==
    connectFailed =>
        /\ boot > ConnectStage
        /\ redis_client = "None"
        /\ ~backendTouched
        /\ DOMAIN store = {}
        /\ \A t \in Threads :
              /\ th[t].got = NoneVal
              /\ th[t].setRes # "True"
              /\ th[t].connected # "True"
              /\ th[t].pc # "c_scan"
              /\ ~th[t].cacheFailed
              /\ th[t].op \in {"clear", "is_connected", "get_stats"}
                    => (Finished(t) /\ th[t].status = 200)

C7_Witness ==
    /\ connectFailed
    /\ \E t, u \in Threads :
          /\ IsRequest(t) /\ th[t].setRes = "False" /\ th[t].status = 200
          /\ th[u].op \in {"clear", "is_connected", "get_stats"} /\ Finished(u)

\* C8: with calls made one at a time, a pair is registered by a load at most
\* once more than it was removed by an unload, and a call for a pair that was
\* loaded when it came in does not run the load routine.
C8_LoadAtMostOnce ==
    /\ \A p \in DOMAIN model_map :
          stat.registered[p] <= 1 + stat.removed[p]
    /\ \A t \in Threads :
          (th[t].op = "load" \/ (IsRequest(t) /\ th[t].engineCalled))
              => (PairOf(th[t]) \in th[t].snapM => ~th[t].loadRan)

C8_Witness ==
    \E t \in Threads, p \in DOMAIN model_map :
        /\ stat.registered[p] = 2 /\ stat.removed[p] = 1
        /\ th[t].op = "load" /\ PairOf(th[t]) = p /\ Finished(t) /\ ~th[t].loadRan

\* C9: with calls made one at a time, unload_model leaves the pair out of
\* both tables and of get_loaded_models and every other pair as it was (a
\* pair that was not loaded: nothing changes); a later translate or
\* _load_model for a pair that is not loaded runs the load routine and
\* registers the pair in both tables.
C9_UnloadThenReload ==
    \A t \in Threads :
        LET r == th[t]  pair == PairOf(th[t]) IN
        /\ (r.op = "unload" /\ Finished(t)) =>
              /\ r.status = 200
              /\ pair \notin models /\ pair \notin tokenizers
              /\ (pair[1] \o "->" \o pair[2]) \notin get_loaded_models(models)
              /\ models = r.snapM \ {pair}
              /\ tokenizers = r.snapT \ {pair}
        /\ ( /\ pair \notin r.snapM
             /\ \/ r.op = "load" /\ Finished(t) /\ r.status = 200
                \/ IsRequest(t) /\ r.engineCalled
                     /\ (r.pc \in AfterLoadPcs \/ (Finished(t) /\ r.status = 200)) ) =>
              /\ r.loadRan
              /\ pair \in models /\ pair \in tokenizers
              /\ models = r.snapM \cup {pair}
              /\ tokenizers = r.snapT \cup {pair}

C9_Witness ==
    \E t \in Threads :
        /\ IsRequest(t) /\ Finished(t) /\ th[t].status = 200 /\ th[t].loadRan
        /\ stat.removed[PairOf(th[t])] = 1
        /\ stat.registered[PairOf(th[t])] = 2
        /\ Cardinality(models) = 2

\* C10: a translate call never fails because the pair's tokenizer or model
\* entry is gone when it reads the tables.
C10_UnloadExclusive ==
    \A t \in Threads : IsRequest(t) => th[t].err # "KeyError"

\* C11: every translate request reaches exactly one terminal state, CacheHit
\* (200, cached), Done (200, not cached) or Failed (an error response), given
\* that each call it makes returns or raises; a request that reaches Done has
\* entered CacheLookup with a miss, Translating and Caching in that order, and
\* a request that reaches CacheHit has entered neither Translating nor Caching.
Terminals == {"CacheHit", "Done", "Failed"}

C11_Stages ==
    \A t \in Threads : IsRequest(t) =>
       LET r    == th[t]
           n    == Len(r.trail)
           last == r.trail[n]
       IN /\ n >= 1
          /\ Finished(t) <=> last \in Terminals
          /\ \A i \in 1..(n - 1) : r.trail[i] \notin Terminals
          /\ last = "Done" =>
                /\ r.trail = <<"Validating", "CacheLookup", "Translating",
                               "Caching", "Done">>
                /\ r.got = NoneVal
                /\ r.status = 200 /\ ~r.cached
          /\ last = "CacheHit" =>
                /\ r.trail = <<"Validating", "CacheLookup", "CacheHit">>
                /\ r.status = 200 /\ r.cached
          /\ last = "Failed" => r.status \in {400, 500} /\ r.err # ""

C11_StateMachine ==
    /\ []C11_Stages
    /\ \A t \in Threads : (IsRequest(t) /\ ~Finished(t)) ~> Finished(t)

C11_Witness ==
    /\ IsRequest(1) /\ th[1].trail[Len(th[1].trail)] = "Done"
    /\ IsRequest(2) /\ th[2].trail[Len(th[2].trail)] = "CacheHit"

\* C12: the key of a triple depends on the triple alone and has the form
\* 'trans:' + source_lang + ':' + target_lang + ':' + 16 hex characters; the
\* get and the set of a request address the same backend key, requests with
\* the same triple address the same key whatever the cache holds, requests
\* with different triples address different keys, and every key of the
\* backend has that form.
HexDigits == {"0", "1", "2", "3", "4", "5", "6", "7", "8", "9",
              "a", "b", "c", "d", "e", "f"}

KeyForm(k, source_lang, target_lang) ==
    LET prefix == "trans:" \o source_lang \o ":" \o target_lang \o ":"
        n      == Len(prefix)
    IN /\ Len(k) = n + 16
       /\ SubSeq(k, 1, n) = prefix
       /\ \A i \in (n + 1)..(n + 16) : SubSeq(k, i, i) \in HexDigits

Triple(r) == <<r.text, r.src, r.tgt>>

C12_KeyDeterminism ==
    /\ \A t \in Threads : IsRequest(t) =>
          /\ th[t].getKey # "" => KeyForm(th[t].getKey, th[t].src, th[t].tgt)
          /\ th[t].setKey # "" => th[t].setKey = th[t].getKey
    /\ \A t, u \in Threads :
          IsRequest(t) /\ IsRequest(u) /\ th[t].getKey # "" /\ th[u].getKey # ""
             => (Triple(th[t]) = Triple(th[u]) <=> th[t].getKey = th[u].getKey)
    /\ \A k \in DOMAIN store :
          \E q \in ValidRequests : KeyForm(k, q.src, q.tgt)

\* Two requests with the same triple, one looking up an empty backend and
\* writing, the other looking up the backend that holds the key.
C12_Witness ==
    /\ IsRequest(1) /\ IsRequest(2)
    /\ Triple(th[1]) = Triple(th[2])
    /\ th[1].setKey # "" /\ th[1].prior = NoneVal /\ th[1].setRes = "True"
    /\ th[2].getKey # "" /\ th[2].prior # NoneVal
    /\ th[1].text.val # th[1].pre

\* C13: preprocess_text is idempotent: preprocess_text(preprocess_text(x))
\* equals preprocess_text(x) for every text x.
C13_NormalizeIdempotent ==
    fn.pc = "preprocessed" => fn.twice = fn.once

C13_Witness ==
    /\ fn.pc = "preprocessed"
    /\ fn.text = <<"a", "!", "!", "\t", " ">>
    /\ fn.once = <<"a", "!">>

\* C14: for every text and every max_length >= 1 chunk_text returns a
\* non-empty list of chunks, in the order they occur in the text, each of
\* length at most max_length unless it consists of a single sentence (with
\* its delimiter) that is itself longer than max_length.
FirstAt(text, c, p) ==
    LET at == {q \in p..(Len(text) - Len(c) + 1) :
                  SubSeq(text, q, q + Len(c) - 1) = c}
    IN IF at = {} THEN 0 ELSE CHOOSE q \in at : \A x \in at : q <= x

RECURSIVE InOrderFrom(_, _, _, _)
InOrderFrom(chunks, i, text, p) ==
    IF i > Len(chunks) THEN TRUE
    ELSE LET q == FirstAt(text, chunks[i], p) IN
         q # 0 /\ InOrderFrom(chunks, i + 1, text, q + Len(chunks[i]))

LongSentence(chunk, text, max_length) ==
    LET sentences == SplitSentences(text) IN
    \E i \in {j \in 1..Len(sentences) : j % 2 = 1} :
       /\ Len(FullSentence(sentences, i)) > max_length
       /\ chunk = Strip(FullSentence(sentences, i))

C14_ChunkBound ==
    fn.pc = "chunked" =>
       /\ fn.max_length >= 1
       /\ fn.chunks # <<>>
       /\ InOrderFrom(fn.chunks, 1, fn.text, 1)
       /\ \A i \in 1..Len(fn.chunks) :
             \/ Len(fn.chunks[i]) <= fn.max_length
             \/ LongSentence(fn.chunks[i], fn.text, fn.max_length)

C14_Witness ==
    /\ fn.pc = "chunked"
    /\ fn.text = <<"a", "a", ".", " ", "a">>
    /\ fn.max_length = 2
    /\ fn.chunks = <<(<<"a", "a", ".">>), (<<"a">>)>>

\* C15: set stores the value with the configured TTL (86400 seconds by
\* default); a lookup returns a value only while less than the TTL has elapsed
\* since the most recent set of its key, and once the TTL has elapsed with no
\* set in between the lookup returns None, the pipeline takes the miss path
\* and the engine is called again.
C15_TTLFreshness ==
    /\ \A k \in DOMAIN store :
          /\ k \in DOMAIN lastSet
          /\ store[k].exp = lastSet[k] + CACHE_TTL
          /\ now < store[k].exp
    /\ \A t \in Threads : IsRequest(t) =>
          /\ th[t].prior # NoneVal => th[t].fresh = "within"
          /\ th[t].fresh = "elapsed" =>
                /\ th[t].prior = NoneVal /\ th[t].got = NoneVal /\ ~th[t].cached
                /\ th[t].pc # "cache_get"
                /\ Finished(t) => th[t].engineCalled

\* A request whose lookup came a full TTL after the set of its key, answered
\* by the engine and written again, and the key's new expiry.
C15_Witness ==
    \E t \in Threads :
       /\ IsRequest(t) /\ Finished(t)
       /\ th[t].fresh = "elapsed"
       /\ th[t].status = 200 /\ th[t].engineCalled /\ th[t].setRes = "True"
       /\ now = CACHE_TTL
       /\ th[t].setKey \in DOMAIN store
       /\ store[th[t].setKey].exp = 2 * CACHE_TTL

\* C16: each pair of the preload list is loaded on its own: a load that
\* fails is caught, does not end the construction and does not keep the
\* remaining pairs from being attempted, so once the constructor has returned
\* the loaded pairs are exactly the preload pairs whose load did not fail.
Preloaded(i) == {common_pairs[j] : j \in {x \in 1..Len(common_pairs) : x < i}}

C16_PreloadIsolation ==
    ops = 0 =>
       /\ stat.preloadFailed \subseteq Preloaded(boot)
       /\ models = Preloaded(boot) \ stat.preloadFailed
       /\ tokenizers = models
       /\ boot >= ConnectStage =>
             models = {common_pairs[j] : j \in 1..Len(common_pairs)}
                         \ stat.preloadFailed

\* The first pair's load failed and the second pair is loaded.
C16_Witness ==
    /\ boot = ConnectStage
    /\ stat.preloadFailed = {common_pairs[1]}
    /\ models = {common_pairs[2]}

\* C17: with a reachable backend and no set running at the same time, clear()
\* goes through the paginated scan from cursor 0, deletes the keys matching
\* 'trans:*' that each page returns and ends when the backend answers cursor
\* 0; when it returns no key with the prefix 'trans:' remains and no key
\* outside the prefix has been deleted.  A backend error during the scan is
\* swallowed: clear() returns without raising.
C17_Cleared ==
    /\ ForeignKeys \subseteq DOMAIN store
    /\ \A t \in Threads : th[t].op = "clear" =>
          /\ th[t].err = ""
          /\ Finished(t) =>
                /\ th[t].status = 200
                /\ redis_client = "Redis" /\ ~th[t].cacheFailed =>
                      \A k \in DOMAIN store : ~ScanMatch(k)

C17_Clear ==
    /\ []C17_Cleared
    /\ \A t \in Threads : (th[t].op = "clear" /\ ~Finished(t)) ~> Finished(t)

\* clear() has returned after deleting the two keys that earlier requests
\* wrote, leaving the other users' keys.
C17_Witness ==
    /\ th[1].op = "clear" /\ Finished(1) /\ ~th[1].cacheFailed
    /\ redis_client = "Redis"
    /\ now = 0
    /\ Cardinality(DOMAIN lastSet) = 2
    /\ DOMAIN store = ForeignKeys

\* C18: a load that raises, for want of a model identifier or because
\* building the tokenizer or the model failed, leaves both tables as they
\* were: no entry for the pair or any other is gained, the pair stays
\* unloaded, and a later call for the pair runs the load again.
LoadFailures == {"ValueError", "load"}
Loads(t)     == th[t].op \in {"load", "translate"}

C18_FailedLoadLeavesRegistry ==
    /\ \A t \in Threads :
          Loads(t) /\ Finished(t) /\ th[t].err \in LoadFailures =>
             /\ models = th[t].snapM
             /\ tokenizers = th[t].snapT
             /\ PairOf(th[t]) \notin models \cup tokenizers
    /\ \A p \in stat.preloadFailed :
          stat.registered[p] = 0 /\ (\A t \in Threads : th[t].pc \notin LoadingPcs)
             => p \notin models \cup tokenizers
    /\ \A t \in Threads :
          /\ Loads(t) /\ Finished(t)
          /\ th[t].op = "translate" => th[t].engineCalled
          /\ PairOf(th[t]) \in stat.preloadFailed
          /\ PairOf(th[t]) \notin th[t].snapM
          => th[t].loadRan

\* The preload of a pair failed, a later call for it ran the load again and
\* that load failed too, with the other pair's entries in place.
C18_Witness ==
    /\ th[1].op = "load" /\ Finished(1) /\ th[1].err = "load" /\ th[1].loadRan
    /\ PairOf(th[1]) = common_pairs[1]
    /\ stat.preloadFailed = {common_pairs[1]}
    /\ models = {common_pairs[2]}

\* C19: under any interleaving of concurrent translate, _load_model and
\* unload_model calls, whenever no load and no unload is in progress the
\* model table and the tokenizer table have the same pairs as keys.
UnloadingPcs == {"u_check", "u_del_model", "u_del_tokenizer"}

C19_TablesPaired ==
    (\A t \in Threads : th[t].pc \notin {"l_check"} \cup LoadingPcs \cup UnloadingPcs)
       => models = tokenizers

\* C20: the engine is never invoked with empty text: for every request that
\* passes validation, the preprocessed text handed to translator.translate
\* is non-empty.
C20_EngineInputNonEmpty ==
    \A t \in Threads :
       IsRequest(t) /\ th[t].engineCalled => th[t].pre # <<>>

\* C21: every pair the allow-list check accepts has a model identifier in
\* the registry's model map, so a request that passed validation never fails
\* with 'Unsupported language pair' from the registry, and the model name of
\* a cached=false response is the identifier defined for exactly its pair.
C21_ValidatedImpliesLoadable ==
    /\ SUPPORTED_PAIRS \subseteq DOMAIN model_map
    /\ \A t \in Threads : IsRequest(t) =>
          /\ th[t].err # "ValueError"
          /\ th[t].pc \notin {"idle", "done"} =>
                /\ PairOf(th[t]) \in DOMAIN model_map
                /\ _get_model_name(th[t].src, th[t].tgt) # ""
          /\ Finished(t) /\ th[t].status = 200 /\ ~th[t].cached =>
                /\ PairOf(th[t]) \in DOMAIN model_map
                /\ th[t].model = model_map[PairOf(th[t])]
                /\ th[t].model # ""

\* A request for a pair that was not preloaded went through the registry's
\* load and was answered with that pair's model name.
C21_Witness ==
    \E t \in Threads :
       /\ IsRequest(t) /\ Finished(t) /\ th[t].status = 200 /\ ~th[t].cached
       /\ th[t].loadRan
       /\ PairOf(th[t]) = <<"hi", "en">>
       /\ th[t].model = "Helsinki-NLP/opus-mt-hi-en"

====
